---- MODULE Spec2Model ----
(***************************************************************************)
(* LabelDistributionLoss (src/losses/distributionLoss.py): construction,   *)
(* the soft histogram and the forward loss.                                *)
(*                                                                         *)
(* Numbers are exact rationals <<n, d>> in lowest terms with d > 0; the    *)
(* pair <<0, 0>> is NaN.  The rounding of float arithmetic is not          *)
(* modelled.                                                               *)
(* A raw model output x is represented by its odds e^x: a rational, or Inf *)
(* for outputs so large that the sigmoid saturates at 1.                   *)
(***************************************************************************)
EXTENDS Integers, Sequences, FiniteSets, TLC

VARIABLES
  args,     \* the arguments of __init__ (line 23)
  pc,       \* the statement of __init__ to run next, "done" or "raised"
  self,     \* the attributes of the instance (lines 25-69)
  frame,    \* the locals proxy_p, proxy_n, proxy_mix of __init__ (lines 42-55)
  exc,      \* the exception __init__ raised, or "none"
  stdout,   \* what __init__ printed (lines 56-60)
  outputs,  \* the raw outputs of the batch being assembled (forward, line 83)
  labels,   \* its labels
  ret,      \* the locals and the return value of the call made on that batch
  callers   \* the frames of the calls several callers have in progress

vars == <<args, pc, self, frame, exc, stdout, outputs, labels, ret, callers>>

(* ------------------------------ bounds --------------------------------- *)
MaxBins == 2
MaxBatch == 3
MaxConc == 1

(* ---------------------------- float arithmetic ------------------------- *)
GCD[a \in Nat, b \in Nat] == IF b = 0 THEN a ELSE GCD[b, a % b]

IAbs(n) == IF n < 0 THEN -n ELSE n

Rat(n, d) ==
  LET g == GCD[IAbs(n), IAbs(d)]
  IN  IF d < 0 THEN <<(-n) \div g, (-d) \div g>> ELSE <<n \div g, d \div g>>

Zero == <<0, 1>>
One == <<1, 1>>
NaN == <<0, 0>>

RAdd(a, b) == Rat(a[1] * b[2] + b[1] * a[2], a[2] * b[2])
RSub(a, b) == Rat(a[1] * b[2] - b[1] * a[2], a[2] * b[2])
RMul(a, b) == Rat(a[1] * b[1], a[2] * b[2])
RDiv(a, b) == IF b[1] = 0 THEN NaN ELSE Rat(a[1] * b[2], a[2] * b[1])
RAbs(a) == <<IAbs(a[1]), a[2]>>
RLt(a, b) == a[1] * b[2] < b[1] * a[2]
RLe(a, b) == a[1] * b[2] <= b[1] * a[2]

(* ------------------------------- tensors ------------------------------- *)
\* An array is its flattened data with its element type and its device.
Array(data, dtype, device) == [data |-> data, dtype |-> dtype, device |-> device]
NoArray == Array(<<>>, "none", "none")

\* np.zeros(n, dtype=float)
Zeros(n) == [i \in 1..n |-> Zero]

\* ceil of a rational
Ceil(a) == -((-a[1]) \div a[2])

\* torch.arange(start, end, step): the ceil((end - start) / step) values
\* start + i * step, i = 0, 1, ...
Arange(start, end, step) ==
  [i \in 1..Ceil(RDiv(RSub(end, start), step)) |->
     RAdd(start, RMul(Rat(i - 1, 1), step))]

\* torch.from_numpy(a).requires_grad_(False).float()
FromNumpy(a) == Array(a.data, "float32", "cpu")

\* tensor.to(device)
ToDevice(x, device) == Array(x.data, x.dtype, device)

(* ----------------------------- construction ---------------------------- *)
Priors == {Rat(-1, 2), Zero, Rat(1, 4), Rat(3, 4)}
Devices == {"cuda"}
ProxyKinds == {"polar", "uniform"}
DistKinds == {"L1", "L2"}

NoSelf ==
  [attrs |-> {}, prior |-> Zero, frac_prior |-> Zero, step |-> Zero,
   device |-> "none", t |-> NoArray, t_size |-> 0, dist |-> "none",
   proxy_p |-> NoArray, proxy_mix |-> NoArray]

NoFrame == [proxy_p |-> NoArray, proxy_n |-> NoArray, proxy_mix |-> NoArray]

NoRet ==
  [op |-> "none", scores |-> <<>>, s_p |-> <<>>, s_u |-> <<>>, l_p |-> Zero,
   l_u |-> Zero, inds |-> <<>>, value |-> <<>>]

\* The statements of __init__ in program order.
OrderSwapped(p) ==
  CASE p = "L25" -> "L28"
    [] p = "L28" -> "L42"
    [] p = "L42" -> "L36"
    [] p = "L36" -> "L53"
    [] p = "L53" -> "L56"
    [] p = "L56" -> "L63"
    [] p = "L63" -> "L67"
    [] p = "L67" -> "done"

Successor(p) ==
  CASE p = "L25" -> "L28"
    [] p = "L28" -> "L36"
    [] p = "L36" -> "L42"
    [] p = "L42" -> "L53"
    [] p = "L53" -> "L56"
    [] p = "L56" -> "L63"
    [] p = "L63" -> "L67"
    [] p = "L67" -> "done"

\* self.prior = prior; self.frac_prior = 1.0 / (2 * prior)
SetPriorNoHalf(s, a) ==
  [s EXCEPT !.attrs = @ \cup {"prior", "frac_prior"},
            !.prior = a.prior,
            !.frac_prior = RDiv(One, a.prior)]

SetPrior(s, a) ==
  [s EXCEPT !.attrs = @ \cup {"prior", "frac_prior"},
            !.prior = a.prior,
            !.frac_prior = RDiv(One, RMul(Rat(2, 1), a.prior))]

\* self.step, self.device, self.t, self.t_size
SetBins(s, a) ==
  LET step == RDiv(One, Rat(a.num_bins, 1))
  IN  [s EXCEPT !.attrs = @ \cup {"step", "device", "t", "t_size"},
                !.step = step,
                !.device = a.device,
                !.t = Array(Arange(Zero, RAdd(One, step), step), "float32", "cpu"),
                !.t_size = a.num_bins + 1]

DistKnownAny(dist) == TRUE
DistKnown(dist) == dist = "L1"

SetDist(s, a) == [s EXCEPT !.attrs = @ \cup {"dist"}, !.dist = "l1_loss"]

ProxyKnown(proxy) == proxy = "polar"

\* proxy_p = np.zeros(t_size); proxy_n = np.zeros_like(proxy_p);
\* proxy_p[-1] = 1; proxy_n[0] = 1
PolarFirst(s) ==
  [proxy_p |-> Array([Zeros(s.t_size) EXCEPT ![1] = One], "float64", "cpu"),
   proxy_n |-> Array([Zeros(s.t_size) EXCEPT ![1] = One], "float64", "cpu"),
   proxy_mix |-> NoArray]

Polar(s) ==
  [proxy_p |-> Array([Zeros(s.t_size) EXCEPT ![s.t_size] = One], "float64", "cpu"),
   proxy_n |-> Array([Zeros(s.t_size) EXCEPT ![1] = One], "float64", "cpu"),
   proxy_mix |-> NoArray]

\* proxy_mix = prior * proxy_p + (1 - prior) * proxy_n
MixSwapped(f, prior) ==
  [f EXCEPT !.proxy_mix =
     Array([i \in 1..Len(f.proxy_p.data) |->
              RAdd(RMul(prior, f.proxy_n.data[i]),
                   RMul(RSub(One, prior), f.proxy_p.data[i]))],
           "float64", "cpu")]

Mix(f, prior) ==
  [f EXCEPT !.proxy_mix =
     Array([i \in 1..Len(f.proxy_p.data) |->
              RAdd(RMul(prior, f.proxy_p.data[i]),
                   RMul(RSub(One, prior), f.proxy_n.data[i]))],
           "float64", "cpu")]

\* self.proxy_p, self.proxy_mix = torch.from_numpy(...).float()
SetProxies(s, f) ==
  [s EXCEPT !.attrs = @ \cup {"proxy_p", "proxy_mix"},
            !.proxy_p = FromNumpy(f.proxy_p),
            !.proxy_mix = FromNumpy(f.proxy_mix)]

\* self.t, self.proxy_p, self.proxy_mix = (...).to(self.device)
Place(s) ==
  [s EXCEPT !.t = ToDevice(@, s.device),
            !.proxy_p = ToDevice(@, s.device),
            !.proxy_mix = ToDevice(@, s.device)]

Raise(kind) ==
  /\ pc' = "raised"
  /\ exc' = kind

Calls == UNCHANGED <<outputs, labels, ret, callers>>

Init_25_26 ==
  /\ pc = "L25"
  /\ IF RMul(Rat(2, 1), args.prior) = Zero
     THEN /\ Raise("ZeroDivisionError")
          /\ UNCHANGED self
     ELSE /\ self' = SetPrior(self, args)
          /\ pc' = Successor(pc)
          /\ UNCHANGED exc
  /\ UNCHANGED <<args, frame, stdout>>
  /\ Calls

Init_28_33 ==
  /\ pc = "L28"
  /\ self' = SetBins(self, args)
  /\ pc' = Successor(pc)
  /\ UNCHANGED <<args, frame, exc, stdout>>
  /\ Calls

Init_36_39 ==
  /\ pc = "L36"
  /\ IF DistKnown(args.dist)
     THEN /\ self' = SetDist(self, args)
          /\ pc' = Successor(pc)
          /\ UNCHANGED exc
     ELSE /\ Raise("NotImplementedError")
          /\ UNCHANGED self
  /\ UNCHANGED <<args, frame, stdout>>
  /\ Calls

Init_42_51 ==
  /\ pc = "L42"
  /\ IF ProxyKnown(args.proxy)
     THEN /\ frame' = Polar(self)
          /\ pc' = Successor(pc)
          /\ UNCHANGED exc
     ELSE /\ Raise("NotImplementedError")
          /\ UNCHANGED frame
  /\ UNCHANGED <<args, self, stdout>>
  /\ Calls

Init_53_55 ==
  /\ pc = "L53"
  /\ frame' = Mix(frame, args.prior)
  /\ pc' = Successor(pc)
  /\ UNCHANGED <<args, self, exc, stdout>>
  /\ Calls

Init_56_60 ==
  /\ pc = "L56"
  /\ stdout' = stdout \o <<frame.proxy_p.data, frame.proxy_mix.data>>
  /\ pc' = Successor(pc)
  /\ UNCHANGED <<args, self, frame, exc>>
  /\ Calls

Init_63_64 ==
  /\ pc = "L63"
  /\ self' = SetProxies(self, frame)
  /\ pc' = Successor(pc)
  /\ UNCHANGED <<args, frame, exc, stdout>>
  /\ Calls

Init_67_69 ==
  /\ pc = "L67"
  /\ self' = Place(self)
  /\ pc' = Successor(pc)
  /\ UNCHANGED <<args, frame, exc, stdout>>
  /\ Calls

Construct ==
  \/ Init_25_26
  \/ Init_28_33
  \/ Init_36_39
  \/ Init_42_51
  \/ Init_53_55
  \/ Init_56_60
  \/ Init_63_64
  \/ Init_67_69

(* -------------------------------- forward ------------------------------ *)
\* The odds e^x of the raw outputs fed to forward: x far below zero (e^x
\* underflows to 0), x = ln 3, and x so large that the sigmoid is 1.
Inf == <<1, 0>>
OutputValues == {Zero, Rat(3, 1), Inf}
LabelValues == {0, 1, 2}

\* torch.sigmoid on one element: e^x / (1 + e^x)
Sigmoid(x) == IF x = Inf THEN One ELSE RDiv(x, RAdd(One, x))

SigmoidAll(outs) == [i \in 1..Len(outs) |-> Sigmoid(outs[i])]

\* labels == v, elementwise
LabelMaskLoose(labs, v) ==
  [i \in 1..Len(labs) |-> IF v = 0 THEN labs[i] # 1 ELSE labs[i] = v]
LabelMask(labs, v) == [i \in 1..Len(labs) |-> labs[i] = v]

\* scores[mask]: the elements at the true positions, in order
RECURSIVE Masked(_, _)
Masked(x, mask) ==
  IF Len(x) = 0 THEN <<>>
  ELSE (IF Head(mask) THEN <<Head(x)>> ELSE <<>>) \o Masked(Tail(x), Tail(mask))

RECURSIVE SumSeq(_)
SumSeq(x) == IF Len(x) = 0 THEN Zero ELSE RAdd(Head(x), SumSeq(Tail(x)))

\* torch.ones_like(x) * c
Filled(x, c) == [i \in 1..Len(x) |-> RMul(One, c)]

\* F.l1_loss(x, y, reduction="mean")
L1LossSigned(x, y) ==
  RDiv(SumSeq([i \in 1..Len(x) |-> RSub(x[i], y[i])]), Rat(Len(x), 1))
L1Loss(x, y) ==
  RDiv(SumSeq([i \in 1..Len(x) |-> RAbs(RSub(x[i], y[i]))]), Rat(Len(x), 1))

\* s_p = scores[labels == 1]; s_u = scores[labels == 0]
Positives(scores, labs) == Masked(scores, LabelMask(labs, 1))
Unlabeled(scores, labs) == Masked(scores, LabelMask(labs, 0))

forward(s, outs, labs) ==
  LET scores == SigmoidAll(outs)
      s_p == Positives(scores, labs)
      s_u == Unlabeled(scores, labs)
      l_p == IF Len(s_p) > 0 THEN L1Loss(s_p, Filled(s_p, One)) ELSE Zero
      l_u == IF Len(s_u) > 0 THEN L1Loss(s_u, Filled(s_u, s.prior)) ELSE Zero
  IN  [op |-> "forward", scores |-> scores, s_p |-> s_p, s_u |-> s_u,
       l_p |-> l_p, l_u |-> l_u, inds |-> <<>>,
       value |-> <<RAdd(l_p, RMul(s.frac_prior, l_u))>>]

(* ------------------------------- histogram ----------------------------- *)
\* scores.repeat(1, t_size): one row per score, t_size copies of it
Repeat(scores, n) == [i \in 1..Len(scores) |-> [j \in 1..n |-> scores[i]]]

\* torch.abs(scores_rep - self.t), self.t broadcast over the rows
HistDiffSigned(rep, t) ==
  [i \in 1..Len(rep) |-> [j \in 1..Len(t) |-> RSub(rep[i][j], t[j])]]
HistDiff(rep, t) ==
  [i \in 1..Len(rep) |-> [j \in 1..Len(t) |-> RAbs(RSub(rep[i][j], t[j]))]]

\* inds = hist > self.step
HistInds(hist, step) ==
  [i \in 1..Len(hist) |-> [j \in 1..Len(hist[i]) |-> RLt(step, hist[i][j])]]

\* hist = self.step - hist
HistKeep(hist, step) == hist
HistSwitch(hist, step) ==
  [i \in 1..Len(hist) |-> [j \in 1..Len(hist[i]) |-> RSub(step, hist[i][j])]]

\* hist[inds] = 0
HistClip(hist, inds) ==
  [i \in 1..Len(hist) |->
     [j \in 1..Len(hist[i]) |-> IF inds[i][j] THEN Zero ELSE hist[i][j]]]

\* hist.sum(dim=0) / (len(scores) * self.step)
HistReduce(hist, n, cols, step) ==
  [j \in 1..cols |->
     RDiv(SumSeq([i \in 1..Len(hist) |-> hist[i][j]]), RMul(Rat(n, 1), step))]

histogram(s, scores) ==
  LET rep == Repeat(scores, s.t_size)
      d == HistDiff(rep, s.t.data)
      inds == HistInds(d, s.step)
      hist == HistClip(HistSwitch(d, s.step), inds)
  IN  [op |-> "histogram", scores |-> scores, s_p |-> <<>>, s_u |-> <<>>,
       l_p |-> Zero, l_u |-> Zero, inds |-> inds,
       value |-> HistReduce(hist, Len(scores), s.t_size, s.step)]

\* The disabled path of forward for the positive term:
\* hist_p = self.histogram(s_p); l_p = self.dist(hist_p, self.proxy_p)
HistogramPath_l_p(s, s_p) == L1Loss(histogram(s, s_p).value, s.proxy_p.data)

(* ------------------------- calls, one at a time ------------------------ *)
Built == UNCHANGED <<args, pc, self, frame, exc, stdout, callers>>

\* The scores histogram is applied to: any column of values in [0, 1].
ScoreValues == {Zero, Rat(1, 2), Rat(3, 4), One}

SeqsUpTo(S, lo, hi) == UNION {[1..n -> S] : n \in lo..hi}

\* forward(outputs, labels) on a batch of up to MaxBatch examples.
Forward ==
  /\ pc = "done"
  /\ ret.op = "none"
  /\ \E n \in 0..MaxBatch :
       \E outs \in [1..n -> OutputValues], labs \in [1..n -> LabelValues] :
         /\ outputs' = outs
         /\ labels' = labs
         /\ ret' = forward(self, outs, labs)
  /\ Built

\* histogram(scores) on a column of up to MaxBatch scores.
Histogram ==
  /\ pc = "done"
  /\ ret.op = "none"
  /\ \E scores \in SeqsUpTo(ScoreValues, 0, MaxBatch) :
       ret' = histogram(self, scores)
  /\ UNCHANGED <<outputs, labels>>
  /\ Built

(* ----------------------- calls by several callers ---------------------- *)
\* Each caller runs forward or histogram on its own arguments against the one
\* shared instance; a step is a stretch of the method between two reads of
\* the instance.
Callers == {"a", "b"}
ConcOutputs == {Zero, Rat(3, 1)}
ConcLabels == {0, 1}

NoLocals ==
  [scores |-> <<>>, s_p |-> <<>>, s_u |-> <<>>, l_p |-> Zero, l_u |-> Zero,
   hist |-> <<>>, inds |-> <<>>, value |-> <<>>]

IdleCaller ==
  [pc |-> "idle", op |-> "none", outputs |-> <<>>, labels |-> <<>>,
   scores |-> <<>>, loc |-> NoLocals]

\* scores = torch.sigmoid(outputs); labels = labels.view(-1, 1);
\* scores = scores.view_as(labels); s_p = ...; s_u = ...
Fwd_84_89(s, c) ==
  LET scores == SigmoidAll(c.outputs)
  IN  [self |-> s,
       loc |-> [c.loc EXCEPT !.scores = scores,
                             !.s_p = Positives(scores, c.labels),
                             !.s_u = Unlabeled(scores, c.labels)]]

\* l_p = 0; l_u = 0; if s_p.numel() > 0: ...; if s_u.numel() > 0: ...
Fwd_91_100(s, c) ==
  [self |-> s,
   loc |-> [c.loc EXCEPT
              !.l_p = IF Len(c.loc.s_p) > 0
                      THEN L1Loss(c.loc.s_p, Filled(c.loc.s_p, One)) ELSE Zero,
              !.l_u = IF Len(c.loc.s_u) > 0
                      THEN L1Loss(c.loc.s_u, Filled(c.loc.s_u, s.prior))
                      ELSE Zero]]

\* return l_p + self.frac_prior * l_u
Fwd_102(s, c) ==
  [self |-> s,
   loc |-> [c.loc EXCEPT
              !.value = <<RAdd(c.loc.l_p, RMul(s.frac_prior, c.loc.l_u))>>]]

\* scores_rep = scores.repeat(1, self.t_size);
\* hist = torch.abs(scores_rep - self.t)
Hist_72_74(s, c) ==
  [self |-> s,
   loc |-> [c.loc EXCEPT
              !.hist = HistDiff(Repeat(c.scores, s.t_size), s.t.data)]]

\* inds = hist > self.step; hist = self.step - hist; hist[inds] = 0
\* (hist is the fresh tensor of line 77: the write stays in the call)
Hist_76_78_Shared(s, c) ==
  LET inds == HistInds(c.loc.hist, s.step)
  IN  [self |-> [s EXCEPT !.t.data =
                   [j \in 1..Len(s.t.data) |->
                      IF \E i \in 1..Len(inds) : inds[i][j] THEN Zero
                      ELSE s.t.data[j]]],
       loc |-> [c.loc EXCEPT
                  !.inds = inds,
                  !.hist = HistClip(HistSwitch(c.loc.hist, s.step), inds)]]

Hist_76_78(s, c) ==
  LET inds == HistInds(c.loc.hist, s.step)
  IN  [self |-> s,
       loc |-> [c.loc EXCEPT
                  !.inds = inds,
                  !.hist = HistClip(HistSwitch(c.loc.hist, s.step), inds)]]

\* return hist.sum(dim=0) / (len(scores) * self.step)
Hist_79_81(s, c) ==
  [self |-> s,
   loc |-> [c.loc EXCEPT
              !.value = HistReduce(c.loc.hist, Len(c.scores), s.t_size, s.step)]]

Sequential == UNCHANGED <<args, pc, frame, exc, stdout, outputs, labels, ret>>

CallForward(c) ==
  /\ pc = "done"
  /\ callers[c].pc = "idle"
  /\ \E n \in 0..MaxConc :
       \E outs \in [1..n -> ConcOutputs], labs \in [1..n -> ConcLabels] :
         callers' = [callers EXCEPT ![c] =
                       [IdleCaller EXCEPT !.pc = "F84", !.op = "forward",
                                          !.outputs = outs, !.labels = labs]]
  /\ UNCHANGED self
  /\ Sequential

CallHistogram(c) ==
  /\ pc = "done"
  /\ callers[c].pc = "idle"
  /\ \E scores \in SeqsUpTo({Sigmoid(o) : o \in ConcOutputs}, 1, MaxConc) :
       callers' = [callers EXCEPT ![c] =
                     [IdleCaller EXCEPT !.pc = "H72", !.op = "histogram",
                                        !.scores = scores]]
  /\ UNCHANGED self
  /\ Sequential

\* One step of a call: the instance and the caller's locals after it.
Step(c, at, after, to) ==
  /\ pc = "done"
  /\ callers[c].pc = at
  /\ self' = after.self
  /\ callers' = [callers EXCEPT ![c].pc = to, ![c].loc = after.loc]
  /\ Sequential

F_84_89(c) == Step(c, "F84", Fwd_84_89(self, callers[c]), "F91")
F_91_100(c) == Step(c, "F91", Fwd_91_100(self, callers[c]), "F102")
F_102(c) == Step(c, "F102", Fwd_102(self, callers[c]), "returned")
H_72_74(c) == Step(c, "H72", Hist_72_74(self, callers[c]), "H76")
H_76_78(c) == Step(c, "H76", Hist_76_78(self, callers[c]), "H79")
H_79_81(c) == Step(c, "H79", Hist_79_81(self, callers[c]), "returned")

NextConc ==
  \/ Construct
  \/ \E c \in Callers : CallForward(c)
  \/ \E c \in Callers : CallHistogram(c)
  \/ \E c \in Callers : F_84_89(c)
  \/ \E c \in Callers : F_91_100(c)
  \/ \E c \in Callers : F_102(c)
  \/ \E c \in Callers : H_72_74(c)
  \/ \E c \in Callers : H_76_78(c)
  \/ \E c \in Callers : H_79_81(c)

Init ==
  /\ args \in [prior : Priors, device : Devices, num_bins : 1..MaxBins,
               proxy : ProxyKinds, dist : DistKinds]
  /\ pc = "L25"
  /\ self = NoSelf
  /\ frame = NoFrame
  /\ exc = "none"
  /\ stdout = <<>>
  /\ outputs = <<>>
  /\ labels = <<>>
  /\ ret = NoRet
  /\ callers = [c \in Callers |-> IdleCaller]

Next ==
  \/ Construct
  \/ Forward
  \/ Histogram

Spec == Init /\ [][Next]_vars

SpecConc == Init /\ [][NextConc]_vars

\* __init__ runs its statements one after another without waiting.
SpecInit == Init /\ [][Next]_vars /\ WF_vars(Construct)

(* ============================== properties ============================= *)
Prior01 == RLt(Zero, args.prior) /\ RLt(args.prior, One)

\* The positions of the batch carrying label v.
Idx(v) == {i \in 1..Len(labels) : labels[i] = v}

RECURSIVE SumAbsDev(_, _, _)
SumAbsDev(I, x, c) ==
  IF I = {} THEN Zero
  ELSE LET i == CHOOSE j \in I : TRUE
       IN  RAdd(RAbs(RSub(x[i], c)), SumAbsDev(I \ {i}, x, c))

\* mean of |x[i] - c| over the positions I, and 0 over no position
MeanAbsDev(I, x, c) ==
  IF I = {} THEN Zero ELSE RDiv(SumAbsDev(I, x, c), Rat(Cardinality(I), 1))

RECURSIVE SumAt(_, _)
SumAt(I, x) ==
  IF I = {} THEN Zero
  ELSE LET i == CHOOSE j \in I : TRUE IN RAdd(x[i], SumAt(I \ {i}, x))

MeanOf(x) == RDiv(SumAt(1..Len(x), x), Rat(Len(x), 1))
Complement(x) == [i \in 1..Len(x) |-> RSub(One, x[i])]

\* The batch without the examples whose label is neither 0 nor 1.
RECURSIVE KeepBinary(_, _)
KeepBinary(x, labs) ==
  IF Len(x) = 0 THEN <<>>
  ELSE (IF Head(labs) \in {0, 1} THEN <<Head(x)>> ELSE <<>>)
       \o KeepBinary(Tail(x), Tail(labs))

\* C1: for a prior in (0,1) and labels in {0,1}, forward returns
\* l_p + (1/(2p)) * l_u, l_p the mean of |score - 1| over the positives and
\* l_u the mean of |score - p| over the unlabeled, each exactly 0 when its
\* subset is empty.
C1_ForwardValue ==
  (ret.op = "forward" /\ Prior01 /\ Idx(0) \cup Idx(1) = 1..Len(labels)) =>
    /\ ret.l_p = MeanAbsDev(Idx(1), ret.scores, One)
    /\ ret.l_u = MeanAbsDev(Idx(0), ret.scores, args.prior)
    /\ ret.value =
         <<RAdd(ret.l_p,
                RMul(RDiv(One, RMul(Rat(2, 1), args.prior)), ret.l_u))>>
    /\ (Idx(1) = {} => ret.l_p = Zero)
    /\ (Idx(0) = {} => ret.l_u = Zero)

C1_Witness ==
  /\ ret.op = "forward"
  /\ Prior01
  /\ Idx(0) \cup Idx(1) = 1..Len(labels)
  /\ Cardinality(Idx(1)) >= 2
  /\ Idx(0) # {}
  /\ ret.l_p # Zero
  /\ ret.l_u # Zero

\* C2: for a prior in (0,1) the loss is non-negative, and it is 0 only when
\* every positive score is 1 and every unlabeled score is the prior.
C2_NonNegative ==
  (ret.op = "forward" /\ Prior01) =>
    /\ RLe(Zero, ret.value[1])
    /\ (ret.value[1] = Zero =>
          /\ \A i \in Idx(1) : ret.scores[i] = One
          /\ \A i \in Idx(0) : ret.scores[i] = args.prior)

C2_Witness ==
  /\ ret.op = "forward"
  /\ Prior01
  /\ ret.value[1] = Zero
  /\ Idx(1) # {}
  /\ Idx(0) # {}

\* C3 as stated: construction raises exactly when the proxy kind is not
\* "polar" or the distance kind is not "L1".
C3_OnlyTwoErrors ==
  /\ (pc = "raised" => (args.proxy # "polar" \/ args.dist # "L1"))
  /\ (pc = "done" => (args.proxy = "polar" /\ args.dist = "L1"))

\* C3 amended: construction raises NotImplementedError when the prior is not
\* zero and the proxy kind is not "polar" or the distance kind is not "L1",
\* raises ZeroDivisionError when the prior is zero, and in every other case
\* runs to completion with every attribute set; every run ends one of these
\* ways.
C3_ErrorConditions ==
  /\ [](/\ (pc = "raised" =>
              \/ (exc = "ZeroDivisionError" /\ args.prior = Zero)
              \/ /\ exc = "NotImplementedError"
                 /\ args.prior # Zero
                 /\ (args.proxy # "polar" \/ args.dist # "L1"))
        /\ (pc = "done" =>
              /\ exc = "none"
              /\ args.prior # Zero
              /\ args.proxy = "polar"
              /\ args.dist = "L1"
              /\ self.attrs = {"prior", "frac_prior", "step", "device", "t",
                               "t_size", "dist", "proxy_p", "proxy_mix"})
        /\ (pc \notin {"raised", "done"} => exc = "none"))
  /\ <>(pc \in {"raised", "done"})

C3_Witness ==
  /\ pc = "raised"
  /\ exc = "ZeroDivisionError"
  /\ args.proxy = "polar"
  /\ args.dist = "L1"

\* C4 as stated: when construction raises the configuration error, no tensor
\* has been built: not the bin centers, not the proxies, nothing placed.
C4_NothingBuiltBeforeRaise ==
  exc = "NotImplementedError" =>
    /\ "t" \notin self.attrs
    /\ frame = NoFrame
    /\ self.proxy_p = NoArray
    /\ self.proxy_mix = NoArray

\* C4 amended: when construction raises the configuration error, the bin
\* centers have been built (and not yet moved to the device), and no proxy
\* vector has been built, printed, converted or placed.
C4_OnlyBinsBeforeRaise ==
  exc = "NotImplementedError" =>
    /\ "t" \in self.attrs
    /\ Len(self.t.data) = args.num_bins + 1
    /\ self.t.device = "cpu"
    /\ frame = NoFrame
    /\ stdout = <<>>
    /\ self.proxy_p = NoArray
    /\ self.proxy_mix = NoArray

C4_Witness ==
  /\ exc = "NotImplementedError"
  /\ args.proxy = "uniform"
  /\ args.dist = "L1"
  /\ "dist" \in self.attrs

\* C5: after a successful construction proxy_positive is one-hot at the last
\* of num_bins+1 places, proxy_negative one-hot at the first, and
\* proxy_mixture is p*proxy_positive + (1-p)*proxy_negative = (1-p, 0..0, p).
C5_Proxies ==
  pc = "done" =>
    LET n == args.num_bins + 1
        p == args.prior
    IN  /\ self.proxy_p.data = [i \in 1..n |-> IF i = n THEN One ELSE Zero]
        /\ frame.proxy_n.data = [i \in 1..n |-> IF i = 1 THEN One ELSE Zero]
        /\ self.proxy_mix.data =
             [i \in 1..n |-> IF i = 1 THEN RSub(One, p)
                             ELSE IF i = n THEN p ELSE Zero]
        /\ \A i \in 1..n :
             self.proxy_mix.data[i] =
               RAdd(RMul(p, self.proxy_p.data[i]),
                    RMul(RSub(One, p), frame.proxy_n.data[i]))

C5_Witness ==
  /\ pc = "done"
  /\ Prior01
  /\ args.num_bins >= 2
  /\ args.prior # Rat(1, 2)

C7_UnitMass ==
  (ret.op = "histogram" /\ args.num_bins = 1 /\ Len(ret.scores) >= 1) =>
    /\ Len(ret.value) = 2
    /\ RAdd(ret.value[1], ret.value[2]) = One
    /\ \A i \in 1..Len(ret.inds) : \A j \in 1..Len(ret.inds[i]) :
         ~ret.inds[i][j]

C7_Witness ==
  /\ ret.op = "histogram"
  /\ args.num_bins = 1
  /\ Len(ret.scores) >= 2
  /\ \E i \in 1..Len(ret.scores) : ret.scores[i] = Zero
  /\ \E i \in 1..Len(ret.scores) : ret.scores[i] \notin {Zero, One}

\* C9: with one bin and at least one positive, the positive term of the
\* histogram-matching path equals the positive term forward computes.
C9_PositiveTermsAgree ==
  (ret.op = "forward" /\ args.num_bins = 1 /\ Len(ret.s_p) >= 1) =>
    HistogramPath_l_p(self, ret.s_p) = ret.l_p

C9_Witness ==
  /\ ret.op = "forward"
  /\ args.num_bins = 1
  /\ Len(ret.s_p) >= 2
  /\ ret.s_p[1] # ret.s_p[2]
  /\ ret.l_p \notin {Zero, Rat(1, 2), One}

\* C10: an example whose label is neither 0 nor 1 enters neither subset, and
\* the loss is that of the batch without such examples (0 if none remains).
C10_OtherLabelsDropped ==
  ret.op = "forward" =>
    /\ Len(ret.s_p) = Cardinality(Idx(1))
    /\ Len(ret.s_u) = Cardinality(Idx(0))
    /\ ret.value =
         forward(self, KeepBinary(outputs, labels), KeepBinary(labels, labels)).value
    /\ (Idx(0) \cup Idx(1) = {} => ret.value = <<Zero>>)

C10_Witness ==
  /\ ret.op = "forward"
  /\ Idx(2) # {}
  /\ Idx(1) # {}
  /\ Idx(0) # {}
  /\ ret.value # <<Zero>>
\* The instance construction yields for the arguments, computed in one go.
Constructed(a) ==
  Place(SetProxies(SetDist(SetBins(SetPrior(NoSelf, a), a), a),
                   Mix(Polar(SetBins(NoSelf, a)), a.prior)))

\* C8: once construction has succeeded, no step of any forward or histogram
\* call, however the calls of several callers interleave, changes prior,
\* frac_prior, step, t, proxy_p or proxy_mix, and every returned value is the
\* one its own arguments and the constants of construction determine.
C8_ConstantsFrozen ==
  [][pc = "done" =>
       /\ self' = self
       /\ self' = Constructed(args)
       /\ \A c \in Callers :
            callers'[c].pc = "returned" =>
              callers'[c].loc.value =
                IF callers'[c].op = "forward"
                THEN forward(Constructed(args), callers'[c].outputs,
                             callers'[c].labels).value
                ELSE histogram(Constructed(args), callers'[c].scores).value]_vars

C8_Witness ==
  /\ pc = "done"
  /\ args.num_bins = 2
  /\ callers["a"].op = "histogram"
  /\ callers["a"].pc = "returned"
  /\ \E i \in 1..Len(callers["a"].loc.inds) :
       \E j \in 1..3 : callers["a"].loc.inds[i][j]
  /\ callers["b"].op = "forward"
  /\ callers["b"].pc = "F102"
  /\ callers["b"].loc.l_u # Zero
====
